---- MODULE Spec2Model ----
(***************************************************************************)
(* Migration operations of populus (populus/migrations/operations.py):     *)
(* SendTransaction, DeployContract, TransactContract and DeployRegistrar   *)
(* are constructed (validation) and then executed against a web3 client.   *)
(* One action models one constructor call or one whole execute call; the   *)
(* answers of the network (gas estimate, block gas limit, time until the   *)
(* receipt, code found on chain) are inputs of the execute action.  The    *)
(* run collects the deferred values of the results that were returned.     *)
(***************************************************************************)
EXTENDS Integers, Sequences, FiniteSets, TLC

VARIABLES
    call,    \* the last constructor call: its arguments and the error raised
    op,      \* the operation object that call produced (NoOp when it raised)
    nsent,   \* number of transactions the network has accepted so far
    last,    \* record of the last execute call on op (NotExecuted: none yet)
    deferred \* keys of the deferred values the run has collected from results

vars == <<call, op, nsent, last, deferred>>

----------------------------------------------------------------------------
(* Bounds of the model *)

\* executes of one network history (transactions accepted) explored
MaxSent == 2
\* gas estimates and block gas limits are 0..MaxGasSteps times 75000
MaxGasSteps == 2
\* a receipt shows up 0..MaxDelaySteps times 100 time units after submission
MaxDelaySteps == 1

GasValues == {k * 75000 : k \in 0..MaxGasSteps}
ReceiptDelays == {k * 100 : k \in 0..MaxDelaySteps}

----------------------------------------------------------------------------
(* Python values *)

\* None and an optional value that is present
None == <<>>
Some(v) == <<v>>

\* A keyword argument left out of a call, or given
Omitted == <<>>
Given(v) == <<v>>
Default(arg, d) == IF arg = Omitted THEN d ELSE arg[1]

\* dict copy: a new dict with the same items
Copy(d) == [k \in DOMAIN d |-> d[k]]

\* d[key] = value on a dict
SetItem(d, key, value) ==
    [k \in (DOMAIN d) \cup {key} |-> IF k = key THEN value ELSE d[k]]

EmptyDict == [k \in {} |-> 0]

Min(a, b) == IF a <= b THEN a ELSE b

\* sep.join(parts)
RECURSIVE Join(_, _)
Join(sep, parts) ==
    IF Len(parts) = 0 THEN ""
    ELSE IF Len(parts) = 1 THEN parts[1]
    ELSE parts[1] \o sep \o Join(sep, Tail(parts))

----------------------------------------------------------------------------
(* Inputs *)

TxnFields == {"from", "gas", "data", "to"}

\* the value a transaction dict carries for a field
TxnFieldValue(k) ==
    CASE k = "from" -> 1
      [] k = "gas"  -> 90000
      [] k = "data" -> 0
      [] k = "to"   -> 2

Transactions == UNION {[S -> {0}] : S \in SUBSET TxnFields}
TransactionDicts == {[k \in DOMAIN t |-> TxnFieldValue(k)] : t \in Transactions}
TransactionArgs == {None} \cup {Some(t) : t \in TransactionDicts}

ArgumentArgs == {None, Some(<<"Guten Tag">>)}
TimeoutArgs == {Omitted, Given(None), Given(Some(30))}
ContractNames == {"Greeter"}
\* the names of the artifacts in the table of compiled project contracts
ArtifactNames == {"Greeter", "Registrar"}
MethodNames == {"setGreeting"}
ContractAddresses == {Some(7)}

\* byte strings and text strings holding the same characters are different
\* Python values
CodeValues == [type : {"bytes", "text"}, chars : {"0x6060", "0x6080"}]

compiled_contracts ==
    [n \in ArtifactNames |->
        [abi |-> "abi", code |-> "0x60606040", source |-> "src",
         code_runtime |-> [type |-> "text", chars |-> "0x6060"]]]

----------------------------------------------------------------------------
(* Errors: every raise of the module is a ValueError told apart by its     *)
(* message; the timeout is raised by the receipt helpers.                  *)

NoError == "none"
ErrVerifyNeedsTimeout == "When verifying a contracts deployment, the timeout value must be set."
ErrDataOrTo == "You cannot specify data or to values in DeployContract transactions."
ErrAutoGasWithGas == "Cannot use auto_gas when specifying a gas value for a transaction"
ErrDeployGasLimit == "Contract does not appear to be delpoyable within the current network gas limits"
ErrTransactGasLimit == "Contract transaction appears to execeed the block gas limit"
ErrVerification == "An error occured during deployment of the contract."
ErrTimeout == "Timeout waiting for the transaction receipt"

ConfigurationErrors == {ErrVerifyNeedsTimeout, ErrDataOrTo, ErrAutoGasWithGas}
GasLimitErrors == {ErrDeployGasLimit, ErrTransactGasLimit}

NoOp == [kind |-> "none"]

Raised(message) == [error |-> message, self |-> NoOp]
Constructed(self) == [error |-> NoError, self |-> self]

----------------------------------------------------------------------------
(* Constructors *)

SendTransaction_init(transaction, timeout) ==
    LET t == Default(timeout, Some(120))
    IN Constructed([kind |-> "SendTransaction",
                    transaction |-> transaction,
                    timeout |-> IF t # None THEN t ELSE Some(30)])

\* variant: the timeout is not looked at when verifying
DeployContract_verify_without_timeout_unchecked(timeout, verify) ==
    timeout = None /\ ~verify

DeployContract_verify_without_timeout(timeout, verify) ==
    timeout = None /\ verify

\* variant: only the data field is looked for
DeployContract_data_only(transaction) == "data" \in DOMAIN transaction

DeployContract_data_or_to(transaction) ==
    "data" \in DOMAIN transaction \/ "to" \in DOMAIN transaction

DeployContract_gas_conflict(auto_gas, transaction) ==
    auto_gas /\ "gas" \in DOMAIN transaction

DeployContract_init(contract_name, transaction, arguments, verify, auto_gas, timeout) ==
    LET t == Default(timeout, Some(120))
        txn == IF transaction = None THEN EmptyDict ELSE transaction[1]
        args == IF arguments = None THEN <<>> ELSE arguments[1]
    IN IF DeployContract_verify_without_timeout(t, verify)
         THEN Raised(ErrVerifyNeedsTimeout)
       ELSE IF DeployContract_data_or_to(txn)
         THEN Raised(ErrDataOrTo)
       ELSE IF DeployContract_gas_conflict(auto_gas, txn)
         THEN Raised(ErrAutoGasWithGas)
       ELSE Constructed([kind |-> "DeployContract",
                         contract_name |-> contract_name,
                         auto_gas |-> auto_gas,
                         transaction |-> txn,
                         arguments |-> args,
                         verify |-> verify,
                         timeout |-> IF t # None THEN t ELSE None])

\* variant: the wrong key is looked for
TransactContract_gas_conflict_wrong_key(auto_gas, transaction) ==
    auto_gas /\ "gasPrice" \in DOMAIN transaction

TransactContract_gas_conflict(auto_gas, transaction) ==
    auto_gas /\ "gas" \in DOMAIN transaction

TransactContract_auto_gas(auto_gas) == TRUE

TransactContract_init(contract_name, method_name, arguments, transaction, contract_address, auto_gas, timeout) ==
    LET t == Default(timeout, Some(120))
        txn == IF transaction = None THEN EmptyDict ELSE transaction[1]
        args == IF arguments = None THEN <<>> ELSE arguments[1]
    IN IF TransactContract_gas_conflict(auto_gas, txn)
         THEN Raised(ErrAutoGasWithGas)
       ELSE Constructed([kind |-> "TransactContract",
                         contract_address |-> contract_address,
                         contract_name |-> contract_name,
                         method_name |-> method_name,
                         auto_gas |-> TransactContract_auto_gas(auto_gas),
                         arguments |-> args,
                         transaction |-> txn,
                         timeout |-> IF t # None THEN t ELSE None])

\* DeployRegistrar.__init__: the keyword arguments go to DeployContract.__init__
DeployRegistrar_init(transaction, arguments, verify, auto_gas, timeout) ==
    LET made == DeployContract_init("Registrar", transaction, arguments,
                                    verify, auto_gas, timeout)
    IN IF made.error # NoError
         THEN made
         ELSE Constructed([made.self EXCEPT !.kind = "DeployRegistrar"])

----------------------------------------------------------------------------
(* The network client and the helpers of populus.utils.transactions.  The  *)
(* record web3 holds what the network answers during one execute.          *)

\* the transaction hash the node returns for the next accepted transaction
NextHash(web3) == web3.nsent + 1

\* the contract address recorded in the receipt of a creation transaction
ReceiptAddress(transaction_hash) == 1000 + transaction_hash

get_block_gas_limit(web3) == web3.gas_limit

\* a receipt is observed when it shows up within the timeout
wait_for_transaction_receipt(web3, transaction_hash, timeout) ==
    IF web3.delay <= timeout
      THEN [error |-> NoError, contractAddress |-> ReceiptAddress(transaction_hash)]
      ELSE [error |-> ErrTimeout, contractAddress |-> 0]

get_contract_address_from_txn(web3, transaction_hash, timeout) ==
    wait_for_transaction_receipt(web3, transaction_hash, timeout)

\* Address.defer(key=..., value=...)
Address_defer(key, value) == [key |-> key, value |-> value]

\* bytes are decoded to the text with the same characters, text is kept
force_text(value) == [type |-> "text", chars |-> value.chars]

\* ContractFactory.encodeConstructorData(arguments)
encodeConstructorData(code, arguments) == <<code, arguments>>

----------------------------------------------------------------------------
(* What one execute call did: the calls it made on the network in order,   *)
(* the answers it read, the transaction it submitted, and how it ended.    *)
(*   delay   when the receipt shows up, once a receipt helper was called   *)
(*   onchain the code at the address of a receipt that was observed        *)
(*   stored  self.transaction as the execute leaves it                     *)
(*   source  the source of the artifact the contract object was built from *)

NotExecuted ==
    [error |-> NoError, returned |-> FALSE, result |-> EmptyDict,
     calls |-> <<>>, gas_estimate |-> None, gas_limit |-> None,
     submitted |-> None, hash |-> None, waited |-> None, code |-> None,
     delay |-> None, onchain |-> None, stored |-> EmptyDict, source |-> None]

\* execute starts on an operation
Begin(self) == [NotExecuted EXCEPT !.stored = self.transaction]

\* execute raised
Raise(run, message) == [run EXCEPT !.error = message]
\* execute returned
Return(run, result) == [run EXCEPT !.returned = TRUE, !.result = result]
Called(run, name) == [run EXCEPT !.calls = Append(@, name)]

\* A local name bound to a dict is either a new dict of its own or the very
\* dict held by self.transaction; an item assignment through the name
\* changes self.transaction in the second case only.
NewDict(d) == [shared |-> FALSE, items |-> Copy(d)]
SameDict(d) == [shared |-> TRUE, items |-> d]
ItemsOf(name, stored) == IF name.shared THEN stored ELSE name.items
AssignItem(name, key, value) ==
    IF name.shared THEN name ELSE [name EXCEPT !.items = SetItem(@, key, value)]
StoredAfter(name, stored, key, value) ==
    IF name.shared THEN SetItem(stored, key, value) ELSE stored

----------------------------------------------------------------------------
(* SendTransaction.execute *)

\* variant: the receipt is never waited for
SendTransaction_waits_never(self) == FALSE

SendTransaction_waits(self) == self.timeout # None

\* variant: the hash is returned under the key of the deploy operations
SendTransaction_result_deploy_key(transaction_hash) ==
    [k \in {"deploy-transaction-hash"} |-> transaction_hash]

SendTransaction_result(transaction_hash) ==
    [k \in {"transaction-hash"} |-> transaction_hash]

\* variant: a timed out transaction is sent once more
SendTransaction_execute_retrying(self, web3) ==
    LET transaction_hash == NextHash(web3)
        sent == [Called(Begin(self), "sendTransaction") EXCEPT
                    !.submitted = Some(self.transaction),
                    !.hash = Some(transaction_hash)]
        waited == [Called(sent, "wait_for_transaction_receipt")
                      EXCEPT !.waited = self.timeout, !.delay = Some(web3.delay)]
    IN IF wait_for_transaction_receipt(web3, transaction_hash, self.timeout[1]).error # NoError
         THEN Raise([Called(waited, "sendTransaction") EXCEPT
                        !.hash = Some(transaction_hash + 1)], ErrTimeout)
         ELSE Return(waited, SendTransaction_result(transaction_hash))

SendTransaction_execute(self, web3) ==
    LET transaction_hash == NextHash(web3)
        sent == [Called(Begin(self), "sendTransaction") EXCEPT
                    !.submitted = Some(self.transaction),
                    !.hash = Some(transaction_hash)]
    IN IF SendTransaction_waits(self)
         THEN LET receipt == wait_for_transaction_receipt(
                                 web3, transaction_hash, self.timeout[1])
                  waited == [Called(sent, "wait_for_transaction_receipt")
                                EXCEPT !.waited = self.timeout,
                                       !.delay = Some(web3.delay)]
              IN IF receipt.error # NoError
                   THEN Raise(waited, receipt.error)
                   ELSE Return(waited, SendTransaction_result(transaction_hash))
         ELSE Return(sent, SendTransaction_result(transaction_hash))

----------------------------------------------------------------------------
(* DeployContract.execute *)

\* variant: the comparison also rejects an estimate equal to the limit
DeployContract_gas_exceeds_or_equals(gas_estimate, gas_limit) == gas_estimate >= gas_limit

DeployContract_gas_exceeds(gas_estimate, gas_limit) == gas_estimate > gas_limit

\* variant: the margin is added without the cap at the block gas limit
DeployContract_gas_uncapped(gas_limit, gas_estimate) == gas_estimate + 100000

DeployContract_gas(gas_limit, gas_estimate) == Min(gas_limit, gas_estimate + 100000)

\* variant: the expected bytecode is compared with itself
DeployContract_code_differs_self(code, code_runtime) ==
    force_text(code_runtime) # force_text(code_runtime)

DeployContract_code_differs(code, code_runtime) ==
    force_text(code) # force_text(code_runtime)

\* variant: the code is read and compared whatever verify says
DeployContract_verifies_always(self) == TRUE

\* variant: the code is never read
DeployContract_verifies_never(self) == FALSE

DeployContract_verifies(self) == self.verify

\* variant: the key is joined with the wrong separator
DeployContract_defer_key_dotted(contract_name) == Join(".", <<"contract", contract_name>>)

DeployContract_defer_key(contract_name) == Join("/", <<"contract", contract_name>>)

DeployContract_result(contract_name, contract_address, deploy_transaction_hash) ==
    ("contract-address" :> contract_address) @@
    ("deploy-transaction-hash" :> deploy_transaction_hash) @@
    ("canonical-contract-address" :>
        Address_defer(DeployContract_defer_key(contract_name), contract_address))

\* variant: the address of the receipt helper's failure value is returned too
DeployContract_result_unconfirmed_with_address(deploy_transaction_hash) ==
    ("contract-address" :> 0) @@
    ("deploy-transaction-hash" :> deploy_transaction_hash)

DeployContract_result_unconfirmed(deploy_transaction_hash) ==
    [k \in {"deploy-transaction-hash"} |-> deploy_transaction_hash]

\* variant: the local name is bound to self.transaction itself
DeployContract_deploy_transaction_alias(self) == SameDict(self.transaction)

\* deploy_transaction = dict(**self.transaction)
DeployContract_deploy_transaction(self) == NewDict(self.transaction)

\* gas_estimate_transaction = dict(**self.transaction)
DeployContract_gas_estimate_transaction(self) == NewDict(self.transaction)

\* from the call of ContractFactory.deploy to the end
DeployContract_submit(self, web3, ContractFactory, run, deploy_transaction) ==
    LET deploy_transaction_hash == NextHash(web3)
        sent == [Called(run, "deploy") EXCEPT
                    !.submitted = Some(deploy_transaction),
                    !.hash = Some(deploy_transaction_hash)]
    IN IF self.timeout # None
         THEN LET receipt == get_contract_address_from_txn(
                                 web3, deploy_transaction_hash, self.timeout[1])
                  contract_address == receipt.contractAddress
                  waited == [Called(sent, "get_contract_address_from_txn")
                                EXCEPT !.waited = self.timeout,
                                       !.delay = Some(web3.delay)]
                  mined == [waited EXCEPT !.onchain = Some(web3.code)]
                  result == DeployContract_result(
                                self.contract_name, contract_address,
                                deploy_transaction_hash)
              IN IF receipt.error # NoError
                   THEN Raise(waited, receipt.error)
                 ELSE IF DeployContract_verifies(self)
                   THEN LET code == web3.code
                            read == [Called(mined, "getCode") EXCEPT
                                        !.code = Some(code)]
                        IN IF DeployContract_code_differs(
                                  code, ContractFactory.code_runtime)
                             THEN Raise(read, ErrVerification)
                             ELSE Return(read, result)
                 ELSE Return(mined, result)
         ELSE Return(sent, DeployContract_result_unconfirmed(deploy_transaction_hash))

DeployContract_execute(self, web3, contracts) ==
    LET contract_data == contracts[self.contract_name]
        ContractFactory == [abi |-> contract_data.abi,
                            code |-> contract_data.code,
                            code_runtime |-> contract_data.code_runtime,
                            source |-> contract_data.source]
        built == [Begin(self) EXCEPT !.source = Some(ContractFactory.source)]
        deploy_transaction == DeployContract_deploy_transaction(self)
    IN IF self.auto_gas
         THEN LET gas_estimate_transaction ==
                      DeployContract_gas_estimate_transaction(self)
                  deploy_data == encodeConstructorData(
                                     ContractFactory.code, self.arguments)
                  stored1 == StoredAfter(gas_estimate_transaction,
                                         self.transaction, "data", deploy_data)
                  gas_estimate == web3.gas_estimate
                  gas_limit == get_block_gas_limit(web3)
                  estimated == [Called(Called(built, "estimateGas"),
                                       "get_block_gas_limit") EXCEPT
                                   !.gas_estimate = Some(gas_estimate),
                                   !.gas_limit = Some(gas_limit),
                                   !.stored = stored1]
                  gas == DeployContract_gas(gas_limit, gas_estimate)
                  stored2 == StoredAfter(deploy_transaction, stored1, "gas", gas)
              IN IF DeployContract_gas_exceeds(gas_estimate, gas_limit)
                   THEN Raise(estimated, ErrDeployGasLimit)
                   ELSE DeployContract_submit(
                            self, web3, ContractFactory,
                            [estimated EXCEPT !.stored = stored2],
                            ItemsOf(AssignItem(deploy_transaction, "gas", gas),
                                    stored2))
         ELSE DeployContract_submit(
                  self, web3, ContractFactory, built,
                  ItemsOf(deploy_transaction, self.transaction))

----------------------------------------------------------------------------
(* DeployRegistrar.execute *)

\* compile_source(REGISTRAR_SOURCE): the one artifact of the bundled source
RegistrarContracts ==
    [n \in {"Registrar"} |->
        [abi |-> "registrar-abi", code |-> "0x60806040",
         source |-> "REGISTRAR_SOURCE",
         code_runtime |-> [type |-> "text", chars |-> "0x6080"]]]

\* variant: a table given in the context is used when there is one
DeployRegistrar_compiled_contracts_from_context(kwargs) ==
    IF "compiled_contracts" \in DOMAIN kwargs
      THEN kwargs["compiled_contracts"] ELSE RegistrarContracts

\* kwargs.pop('compiled_contracts', None), then the bundled source is compiled
DeployRegistrar_compiled_contracts(kwargs) == RegistrarContracts

DeployRegistrar_execute(self, web3, kwargs) ==
    DeployContract_execute(self, web3, DeployRegistrar_compiled_contracts(kwargs))

----------------------------------------------------------------------------
(* TransactContract.execute *)

TransactContract_gas_exceeds(gas_estimate, gas_limit) == gas_estimate > gas_limit

TransactContract_gas(gas_limit, gas_estimate) == Min(gas_limit, gas_estimate + 100000)

\* the dict handed to contract.transact
TransactContract_transact_arg(self, transaction) == self.transaction

\* variant: the local name is bound to self.transaction itself
TransactContract_transaction_alias(self) == SameDict(self.transaction)

\* transaction = dict(**self.transaction)
TransactContract_transaction(self) == NewDict(self.transaction)

\* variant: the hash is returned under the key of SendTransaction
TransactContract_result_plain_key(transaction_hash) ==
    [k \in {"transaction-hash"} |-> transaction_hash]

TransactContract_result(transaction_hash) ==
    [k \in {"deploy-transaction-hash"} |-> transaction_hash]

\* from the call of contract.transact to the end
TransactContract_submit(self, web3, run, transaction) ==
    LET transaction_hash == NextHash(web3)
        sent == [Called(run, "transact") EXCEPT
                    !.submitted = Some(TransactContract_transact_arg(
                                           [self EXCEPT !.transaction = run.stored],
                                           transaction)),
                    !.hash = Some(transaction_hash)]
        result == TransactContract_result(transaction_hash)
    IN IF self.timeout # None
         THEN LET receipt == wait_for_transaction_receipt(
                                 web3, transaction_hash, self.timeout[1])
                  waited == [Called(sent, "wait_for_transaction_receipt")
                                EXCEPT !.waited = self.timeout,
                                       !.delay = Some(web3.delay)]
              IN IF receipt.error # NoError
                   THEN Raise(waited, receipt.error)
                   ELSE Return(waited, result)
         ELSE Return(sent, result)

TransactContract_execute(self, web3, contracts) ==
    LET contract_data == contracts[self.contract_name]
        contract == [address |-> self.contract_address,
                     abi |-> contract_data.abi,
                     code |-> contract_data.code,
                     code_runtime |-> contract_data.code_runtime,
                     source |-> contract_data.source]
        built == [Begin(self) EXCEPT !.source = Some(contract.source)]
        transaction == TransactContract_transaction(self)
    IN IF self.auto_gas
         THEN LET gas_estimate_txn == NewDict(self.transaction)
                  gas_estimate == web3.gas_estimate
                  gas_limit == get_block_gas_limit(web3)
                  estimated == [Called(Called(built, "estimateGas"),
                                       "get_block_gas_limit") EXCEPT
                                   !.gas_estimate = Some(gas_estimate),
                                   !.gas_limit = Some(gas_limit)]
                  gas == TransactContract_gas(gas_limit, gas_estimate)
                  stored1 == StoredAfter(transaction, self.transaction, "gas", gas)
              IN IF TransactContract_gas_exceeds(gas_estimate, gas_limit)
                   THEN Raise(estimated, ErrTransactGasLimit)
                   ELSE TransactContract_submit(
                            self, web3, [estimated EXCEPT !.stored = stored1],
                            ItemsOf(AssignItem(transaction, "gas", gas), stored1))
         ELSE TransactContract_submit(
                  self, web3, built, ItemsOf(transaction, self.transaction))

----------------------------------------------------------------------------
(* The runner: it constructs an operation, executes it, and discards it.   *)

NoCall == [kind |-> "none", error |-> NoError]

Init ==
    /\ call = NoCall
    /\ op = NoOp
    /\ nsent = 0
    /\ last = NotExecuted
    /\ deferred = {}

ConstructSendTransaction ==
    /\ call = NoCall
    /\ \E transaction \in TransactionDicts, timeout \in TimeoutArgs :
         LET made == SendTransaction_init(transaction, timeout)
         IN /\ call' = [kind |-> "SendTransaction",
                        transaction |-> Some(transaction),
                        timeout |-> timeout,
                        error |-> made.error]
            /\ op' = made.self
    /\ UNCHANGED <<nsent, last, deferred>>

ConstructDeployContract ==
    /\ call = NoCall
    /\ \E contract_name \in ContractNames, transaction \in TransactionArgs,
          arguments \in ArgumentArgs, verify \in BOOLEAN,
          auto_gas \in BOOLEAN, timeout \in TimeoutArgs :
         LET made == DeployContract_init(contract_name, transaction,
                                         arguments, verify, auto_gas, timeout)
         IN /\ call' = [kind |-> "DeployContract",
                        contract_name |-> contract_name,
                        transaction |-> transaction,
                        arguments |-> arguments,
                        verify |-> verify,
                        auto_gas |-> auto_gas,
                        timeout |-> timeout,
                        error |-> made.error]
            /\ op' = made.self
    /\ UNCHANGED <<nsent, last, deferred>>

ConstructTransactContract ==
    /\ call = NoCall
    /\ \E contract_name \in ContractNames, method_name \in MethodNames,
          arguments \in ArgumentArgs, transaction \in TransactionArgs,
          contract_address \in ContractAddresses,
          auto_gas \in BOOLEAN, timeout \in TimeoutArgs :
         LET made == TransactContract_init(contract_name, method_name,
                                           arguments, transaction,
                                           contract_address, auto_gas, timeout)
         IN /\ call' = [kind |-> "TransactContract",
                        contract_name |-> contract_name,
                        method_name |-> method_name,
                        arguments |-> arguments,
                        transaction |-> transaction,
                        contract_address |-> contract_address,
                        auto_gas |-> auto_gas,
                        timeout |-> timeout,
                        error |-> made.error]
            /\ op' = made.self
    /\ UNCHANGED <<nsent, last, deferred>>

ConstructDeployRegistrar ==
    /\ call = NoCall
    /\ \E transaction \in TransactionArgs, arguments \in ArgumentArgs,
          verify \in BOOLEAN, auto_gas \in BOOLEAN, timeout \in TimeoutArgs :
         LET made == DeployRegistrar_init(transaction, arguments, verify,
                                          auto_gas, timeout)
         IN /\ call' = [kind |-> "DeployRegistrar",
                        transaction |-> transaction,
                        arguments |-> arguments,
                        verify |-> verify,
                        auto_gas |-> auto_gas,
                        timeout |-> timeout,
                        error |-> made.error]
            /\ op' = made.self
    /\ UNCHANGED <<nsent, last, deferred>>

\* the keyword arguments the runner passes to execute besides web3
ContextArgs == {EmptyDict, [k \in {"compiled_contracts"} |-> compiled_contracts]}

\* what the network answers during one execute.  An answer the operation
\* never asks for (no auto-gas, no timeout, no verification) is not varied:
\* it is held at the value that would make the execute fail if it were read.
Web3Answers ==
    LET estimates == op.kind \in {"DeployContract", "DeployRegistrar", "TransactContract"} /\ op.auto_gas
        waits == op.timeout # None
        verifies == op.kind \in {"DeployContract", "DeployRegistrar"} /\ op.verify
        top == CHOOSE g \in GasValues : \A h \in GasValues : h <= g
        late == CHOOSE d \in ReceiptDelays : \A e \in ReceiptDelays : e <= d
        expected == IF op.kind = "DeployRegistrar"
                      THEN RegistrarContracts["Registrar"].code_runtime
                      ELSE compiled_contracts["Greeter"].code_runtime
        other == CHOOSE c \in CodeValues : c.type = "bytes" /\ c.chars # expected.chars
    IN [gas_estimate : IF estimates THEN GasValues ELSE {top},
        gas_limit : IF estimates THEN GasValues ELSE {0},
        delay : IF waits THEN ReceiptDelays ELSE {late},
        code : IF verifies THEN CodeValues ELSE {other},
        nsent : {nsent}]

\* the calls of an execute that hand a transaction to the network
Submissions(run) == {i \in 1..Len(run.calls) : run.calls[i] \in {"sendTransaction", "deploy", "transact"}}

\* the deferred values of a result the runner adds to its registry
Collected(run) ==
    IF run.returned /\ "canonical-contract-address" \in DOMAIN run.result
      THEN {run.result["canonical-contract-address"].key}
      ELSE {}

Executed(run) ==
    /\ last' = run
    /\ nsent' = nsent + Cardinality(Submissions(run))
    /\ op' = [op EXCEPT !.transaction = run.stored]
    /\ deferred' = deferred \cup Collected(run)
    /\ UNCHANGED call

ExecuteSendTransaction ==
    /\ op.kind = "SendTransaction"
    /\ nsent < MaxSent
    /\ \E web3 \in Web3Answers : Executed(SendTransaction_execute(op, web3))

ExecuteDeployContract ==
    /\ op.kind = "DeployContract"
    /\ nsent < MaxSent
    /\ \E web3 \in Web3Answers :
         Executed(DeployContract_execute(op, web3, compiled_contracts))

ExecuteTransactContract ==
    /\ op.kind = "TransactContract"
    /\ nsent < MaxSent
    /\ \E web3 \in Web3Answers :
         Executed(TransactContract_execute(op, web3, compiled_contracts))

ExecuteDeployRegistrar ==
    /\ op.kind = "DeployRegistrar"
    /\ nsent < MaxSent
    /\ \E web3 \in Web3Answers, kwargs \in ContextArgs :
         Executed(DeployRegistrar_execute(op, web3, kwargs))

\* the runner drops the operation (or the failed construction) and goes on
Discard ==
    /\ call # NoCall
    /\ call' = NoCall
    /\ op' = NoOp
    /\ last' = NotExecuted
    /\ UNCHANGED <<nsent, deferred>>

Next ==
    \/ ConstructSendTransaction
    \/ ConstructDeployContract
    \/ ConstructTransactContract
    \/ ExecuteSendTransaction
    \/ ExecuteDeployContract
    \/ ExecuteTransactContract
    \/ ConstructDeployRegistrar
    \/ ExecuteDeployRegistrar
    \/ Discard

Spec == Init /\ [][Next]_vars

----------------------------------------------------------------------------
(* Vocabulary of the properties *)

HasExecuted == last # NotExecuted
CallsMade == {last.calls[i] : i \in 1..Len(last.calls)}
SubmitCalls == {"sendTransaction", "deploy", "transact"}
WaitCalls == {"wait_for_transaction_receipt", "get_contract_address_from_txn"}

\* the transaction dict a constructor call was given (None stands for {})
CallTransaction == IF call.transaction = None THEN EmptyDict ELSE call.transaction[1]

\* min(L, E + 100000) written out
Budget(E, L) == IF E + 100000 < L THEN E + 100000 ELSE L

ExpectedRuntime(name) == compiled_contracts[name].code_runtime

----------------------------------------------------------------------------
\* C1: in DeployContract.execute and TransactContract.execute with auto-gas
\* in effect, an estimate above the block gas limit ends the execute with the
\* gas-limit error before anything is submitted; an estimate equal to the
\* limit does not fail the check.
C1_GasLimitStopsBeforeSubmit ==
    (op.kind \in {"DeployContract", "TransactContract"} /\ op.auto_gas /\ HasExecuted)
    => /\ last.gas_estimate # None /\ last.gas_limit # None
       /\ last.gas_estimate[1] > last.gas_limit[1]
            => /\ last.error \in GasLimitErrors
               /\ ~last.returned
               /\ last.submitted = None
               /\ last.hash = None
               /\ CallsMade \cap SubmitCalls = {}
       /\ last.gas_estimate[1] <= last.gas_limit[1]
            => /\ last.error \notin GasLimitErrors
               /\ last.submitted # None

C1_Witness ==
    /\ op.kind = "TransactContract"
    /\ last.gas_estimate = Some(150000)
    /\ last.gas_limit = Some(75000)
    /\ last.error = ErrTransactGasLimit
    /\ last.submitted = None

\* C2: DeployContract.execute with auto_gas submits its deploy transaction
\* with gas = min(L, E + 100000), which is at most L, and with every
\* configured field unchanged.
C2_DeployGasBudget ==
    (op.kind = "DeployContract" /\ op.auto_gas /\ last.submitted # None)
    => LET E == last.gas_estimate[1]
           L == last.gas_limit[1]
           sub == last.submitted[1]
       IN /\ E <= L
          /\ DOMAIN sub = DOMAIN op.transaction \cup {"gas"}
          /\ sub["gas"] = Budget(E, L)
          /\ sub["gas"] <= L
          /\ \A k \in DOMAIN op.transaction : sub[k] = op.transaction[k]

C2_Witness ==
    /\ op.kind = "DeployContract"
    /\ op.auto_gas
    /\ "from" \in DOMAIN op.transaction
    /\ last.gas_estimate = Some(75000)
    /\ last.gas_limit = Some(150000)
    /\ last.submitted = Some(("from" :> 1) @@ ("gas" :> 150000))

\* C3: TransactContract.execute with auto-gas in effect invokes the method
\* with a transaction that carries gas = min(L, E + 100000).
C3_TransactGasBudget ==
    (op.kind = "TransactContract" /\ op.auto_gas /\ last.submitted # None)
    => /\ "gas" \in DOMAIN last.submitted[1]
       /\ last.submitted[1]["gas"] = Budget(last.gas_estimate[1], last.gas_limit[1])

\* C4: a DeployContract.execute that returns with a timeout set returns
\* exactly contract-address, deploy-transaction-hash and
\* canonical-contract-address; the deferred value has the key "contract/"
\* followed by the contract name and the value of contract-address, which is
\* the address in the receipt of the transaction this execute submitted.
C4_DeployResultWithTimeout ==
    (op.kind = "DeployContract" /\ op.timeout # None /\ last.returned)
    => /\ DOMAIN last.result = {"contract-address", "deploy-transaction-hash",
                                "canonical-contract-address"}
       /\ last.result["canonical-contract-address"].key = "contract/" \o op.contract_name
       /\ last.result["canonical-contract-address"].value = last.result["contract-address"]
       /\ last.hash = Some(nsent)
       /\ last.result["deploy-transaction-hash"] = nsent
       /\ last.result["contract-address"] = ReceiptAddress(nsent)

C4_Witness ==
    /\ op.kind = "DeployContract"
    /\ op.contract_name = "Greeter"
    /\ op.timeout = Some(30)
    /\ last.returned
    /\ nsent = 2
    /\ last.result["canonical-contract-address"] =
           [key |-> "contract/Greeter", value |-> ReceiptAddress(2)]

\* C5: with verify true, a confirmed deployment whose on-chain code differs
\* from the expected runtime bytecode ends with the verification error and
\* no result, after the transaction was submitted and its receipt observed;
\* an execute that returns has read code equal to the expected bytecode.
C5_VerifyMismatchFails ==
    (op.kind = "DeployContract" /\ op.verify /\ HasExecuted)
    => LET expected == ExpectedRuntime(op.contract_name)
           confirmed == last.submitted # None /\ last.waited # None
                        /\ last.error # ErrTimeout
       IN /\ confirmed => last.code # None
          /\ (last.code # None /\ last.code[1].chars # expected.chars)
               => /\ last.error = ErrVerification
                  /\ ~last.returned
                  /\ last.result = EmptyDict
                  /\ confirmed
                  /\ last.hash = Some(nsent)
          /\ last.returned
               => /\ last.code # None
                  /\ last.code[1].chars = expected.chars
                  /\ last.error = NoError

C5_Witness ==
    /\ op.kind = "DeployContract"
    /\ op.verify
    /\ last.code = Some([type |-> "bytes", chars |-> "0x6080"])
    /\ last.error = ErrVerification
    /\ nsent = 1

\* C6: a SendTransaction constructed with timeout = None submits and returns
\* {transaction-hash} without waiting for a receipt, so it never fails with
\* the confirmation timeout; with the timeout omitted the wait uses 120.
C6_SendTimeoutDisabled ==
    (call.kind = "SendTransaction" /\ HasExecuted)
    => /\ call.timeout = Given(None)
            => /\ CallsMade \cap WaitCalls = {}
               /\ last.waited = None
               /\ last.error # ErrTimeout
               /\ last.returned
               /\ DOMAIN last.result = {"transaction-hash"}
       /\ call.timeout = Omitted => last.waited = Some(120)

\* C7: a TransactContract constructed with auto_gas = False estimates no gas,
\* reads no block gas limit, never fails with the gas-limit error, and
\* invokes the method with the configured transaction as given.
C7_TransactAutoGasFlagAuthoritative ==
    (call.kind = "TransactContract" /\ ~call.auto_gas /\ HasExecuted)
    => /\ "estimateGas" \notin CallsMade
       /\ "get_block_gas_limit" \notin CallsMade
       /\ last.error \notin GasLimitErrors
       /\ last.submitted = Some(op.transaction)

\* C8: constructing a DeployContract with a transaction that contains data
\* or to raises a configuration error and yields no operation, whatever the
\* other arguments; a transaction with neither is not rejected by that rule.
C8_DeployRejectsDataOrTo ==
    call.kind = "DeployContract"
    => /\ ("data" \in DOMAIN CallTransaction \/ "to" \in DOMAIN CallTransaction)
            => (call.error \in ConfigurationErrors /\ op = NoOp)
       /\ ("data" \notin DOMAIN CallTransaction /\ "to" \notin DOMAIN CallTransaction)
            => call.error # ErrDataOrTo

C8_Witness ==
    /\ call.kind = "DeployContract"
    /\ DOMAIN CallTransaction = {"to"}
    /\ ~call.verify /\ ~call.auto_gas /\ call.timeout = Given(None)
    /\ call.error = ErrDataOrTo
    /\ op = NoOp

\* C9: constructing a DeployContract or a TransactContract with auto_gas
\* true and a transaction that contains gas raises a configuration error;
\* auto_gas false with gas, or auto_gas true without gas, is not rejected by
\* that rule; so no operation constructed with auto_gas requested holds a
\* transaction containing gas.
C9_AutoGasExcludesPresetGas ==
    call.kind \in {"DeployContract", "TransactContract"}
    => /\ (call.auto_gas /\ "gas" \in DOMAIN CallTransaction)
            => (call.error \in ConfigurationErrors /\ op = NoOp)
       /\ ~(call.auto_gas /\ "gas" \in DOMAIN CallTransaction)
            => call.error # ErrAutoGasWithGas
       /\ (call.auto_gas /\ op # NoOp) => "gas" \notin DOMAIN op.transaction

C9_Witness ==
    /\ call.kind = "TransactContract"
    /\ call.auto_gas
    /\ DOMAIN CallTransaction = {"from", "gas"}
    /\ call.error = ErrAutoGasWithGas
    /\ op = NoOp

\* C10: constructing a DeployContract with verify true and timeout None
\* raises a configuration error; every constructed DeployContract with
\* verify set has a timeout; verify false with timeout None is accepted.
C10_VerifyNeedsTimeout ==
    call.kind = "DeployContract"
    => /\ (call.verify /\ call.timeout = Given(None))
            => (call.error = ErrVerifyNeedsTimeout /\ op = NoOp)
       /\ op # NoOp => (op.verify => op.timeout # None)
       /\ (~call.verify /\ call.timeout = Given(None))
            => /\ call.error # ErrVerifyNeedsTimeout
               /\ (call.error = NoError
                     => (op.kind = "DeployContract" /\ op.timeout = None /\ ~op.verify))
               /\ ({"data", "to"} \cap DOMAIN CallTransaction = {}
                   /\ ~(call.auto_gas /\ "gas" \in DOMAIN CallTransaction))
                     => call.error = NoError

C10_Witness ==
    /\ call.kind = "DeployContract"
    /\ call.verify
    /\ call.timeout = Given(None)
    /\ DOMAIN CallTransaction = {"from"}
    /\ call.error = ErrVerifyNeedsTimeout
    /\ op = NoOp

----------------------------------------------------------------------------
(* Vocabulary of the later properties *)

\* DeployRegistrar is a DeployContract
DeployKinds == {"DeployContract", "DeployRegistrar"}

\* the arguments a constructor call was given (None stands for [])
CallArguments == IF call.arguments = None THEN <<>> ELSE call.arguments[1]

SubmitIndexes == {i \in 1..Len(last.calls) : last.calls[i] \in SubmitCalls}
WaitIndexes == {i \in 1..Len(last.calls) : last.calls[i] \in WaitCalls}

\* the receipt showed up within the timeout of the wait
ReceiptObserved ==
    last.delay # None /\ last.waited # None /\ last.delay[1] <= last.waited[1]

C12_WaitForReceipt ==
    (op.kind # "none" /\ op.timeout # None /\ HasExecuted)
    => /\ last.returned
            => /\ SubmitIndexes # {}
               /\ last.waited = op.timeout
               /\ ReceiptObserved
       /\ last.submitted # None => (WaitIndexes # {} /\ last.delay # None)
       /\ (last.delay # None /\ last.delay[1] > op.timeout[1])
            => /\ last.error = ErrTimeout
               /\ ~last.returned
               /\ last.result = EmptyDict
       /\ last.error = ErrTimeout => ~ReceiptObserved
       /\ \A j \in WaitIndexes : \E i \in SubmitIndexes : i < j
       /\ \A j \in WaitIndexes : \A i \in SubmitIndexes : i < j

C12_Witness ==
    /\ op.kind = "TransactContract"
    /\ op.timeout = Some(30)
    /\ last.delay = Some(100)
    /\ last.error = ErrTimeout
    /\ last.hash = Some(1)
    /\ ~last.returned

\* C13: one execute submits at most one transaction: exactly one when it
\* gets past the gas-limit check, also when it then ends in a timeout or a
\* verification failure, and none when the gas-limit check fails; so every
\* further execute of the same operation adds one more transaction.
C13_OneSubmissionPerExecute ==
    [][(call' = call /\ op.kind # "none")
        => /\ nsent' \in {nsent, nsent + 1}
           /\ Cardinality({i \in 1..Len(last'.calls) : last'.calls[i] \in SubmitCalls}) <= 1
           /\ last'.error \in GasLimitErrors => nsent' = nsent
           /\ last'.error \notin GasLimitErrors
                => (nsent' = nsent + 1 /\ last'.hash = Some(nsent + 1))]_vars

C13_Witness ==
    /\ op.kind = "DeployContract"
    /\ nsent = 2
    /\ last.hash = Some(2)
    /\ last.error = ErrVerification

\* C14: execute leaves the configured transaction and arguments of a
\* DeployContract or TransactContract as validated at construction; the gas
\* of auto-gas goes to a copy, so every execute estimates again and the
\* stored transaction of an auto-gas operation never contains gas.
C14_ExecuteKeepsConfiguration ==
    (op.kind \in DeployKinds \cup {"TransactContract"})
    => /\ op.transaction = CallTransaction
       /\ op.arguments = CallArguments
       /\ HasExecuted => last.stored = CallTransaction
       /\ call.auto_gas => "gas" \notin DOMAIN op.transaction
       /\ (HasExecuted /\ op.auto_gas)
            => ("estimateGas" \in CallsMade /\ last.gas_estimate # None)

C14_Witness ==
    /\ op.kind = "DeployContract"
    /\ op.auto_gas
    /\ nsent = 2
    /\ last.hash = Some(2)
    /\ last.gas_estimate = Some(0)
    /\ last.submitted = Some(("from" :> 1) @@ ("gas" :> 100000))
    /\ op.transaction = ("from" :> 1)

\* C17: an execute that returns gives back the hash of the transaction it
\* submitted itself: under transaction-hash for SendTransaction, under
\* deploy-transaction-hash for DeployContract and for TransactContract,
\* whose result has that key only.
C17_ResultCarriesOwnHash ==
    last.returned
    => /\ last.hash = Some(nsent)
       /\ op.kind = "SendTransaction"
            => /\ "transaction-hash" \in DOMAIN last.result
               /\ last.result["transaction-hash"] = nsent
       /\ op.kind \in DeployKinds
            => /\ "deploy-transaction-hash" \in DOMAIN last.result
               /\ last.result["deploy-transaction-hash"] = nsent
       /\ op.kind = "TransactContract"
            => /\ DOMAIN last.result = {"deploy-transaction-hash"}
               /\ last.result["deploy-transaction-hash"] = nsent

C17_Witness ==
    /\ op.kind = "TransactContract"
    /\ nsent = 2
    /\ last.returned
    /\ last.result = [k \in {"deploy-transaction-hash"} |-> 2]

\* C18: a DeployContract with verify false and a timeout never reads the
\* code on chain and never fails with the verification error; once the
\* receipt is observed it returns the address and its deferred value, also
\* when the code at that address is not the expected runtime bytecode.
C18_NoVerifyNeverReadsCode ==
    (op.kind \in DeployKinds /\ ~op.verify /\ op.timeout # None /\ HasExecuted)
    => /\ "getCode" \notin CallsMade
       /\ last.code = None
       /\ last.error # ErrVerification
       /\ ReceiptObserved
            => /\ last.returned
               /\ last.onchain # None
               /\ last.result["contract-address"] = ReceiptAddress(nsent)
               /\ last.result["canonical-contract-address"].value = ReceiptAddress(nsent)

C18_Witness ==
    /\ op.kind = "DeployContract"
    /\ ~op.verify
    /\ op.timeout = Some(30)
    /\ last.returned
    /\ last.onchain = Some([type |-> "bytes", chars |-> "0x6080"])
    /\ ExpectedRuntime(op.contract_name).chars = "0x6060"
    /\ "canonical-contract-address" \in DOMAIN last.result

\* C16: DeployRegistrar is a DeployContract named "Registrar": its
\* construction accepts and rejects as DeployContract does and stores the
\* other arguments unchanged; its execute builds the contract from the
\* bundled source whatever table the context carries and goes through the
\* steps of DeployContract.execute, so a return with a timeout carries the
\* deferred key "contract/Registrar".
C16_DeployRegistrar ==
    call.kind = "DeployRegistrar"
    => LET t == CallTransaction
           rejected ==
               IF call.verify /\ call.timeout = Given(None) THEN ErrVerifyNeedsTimeout
               ELSE IF "data" \in DOMAIN t \/ "to" \in DOMAIN t THEN ErrDataOrTo
               ELSE IF call.auto_gas /\ "gas" \in DOMAIN t THEN ErrAutoGasWithGas
               ELSE NoError
       IN /\ call.error = rejected
          /\ call.error # NoError => op = NoOp
          /\ call.error = NoError
               => /\ op.kind = "DeployRegistrar"
                  /\ op.contract_name = "Registrar"
                  /\ op.transaction = t
                  /\ op.arguments = CallArguments
                  /\ op.verify = call.verify
                  /\ op.auto_gas = call.auto_gas
                  /\ op.timeout = IF call.timeout = Omitted THEN Some(120)
                                  ELSE call.timeout[1]
          /\ HasExecuted
               => /\ last.source = Some("REGISTRAR_SOURCE")
                  /\ last.source # Some(compiled_contracts["Registrar"].source)
                  /\ op.auto_gas
                       => /\ last.gas_estimate # None
                          /\ last.gas_estimate[1] > last.gas_limit[1]
                               => (last.error = ErrDeployGasLimit /\ last.submitted = None)
                          /\ last.submitted # None
                               => last.submitted[1]["gas"] =
                                     Budget(last.gas_estimate[1], last.gas_limit[1])
                  /\ ~op.auto_gas => last.submitted = Some(t)
                  /\ (last.returned /\ op.verify)
                       => (last.code # None /\ last.code[1].chars = "0x6080")
                  /\ (last.returned /\ op.timeout # None)
                       => /\ ReceiptObserved
                          /\ last.result["canonical-contract-address"] =
                                [key |-> "contract/Registrar",
                                 value |-> last.result["contract-address"]]
                  /\ (last.returned /\ op.timeout = None)
                       => DOMAIN last.result = {"deploy-transaction-hash"}

C16_Witness ==
    /\ op.kind = "DeployRegistrar"
    /\ op.verify
    /\ last.returned
    /\ last.source = Some("REGISTRAR_SOURCE")
    /\ last.code = Some([type |-> "bytes", chars |-> "0x6080"])
    /\ last.result["canonical-contract-address"].key = "contract/Registrar"

\* C15: in a run that collects the deferred values of results, a key is
\* added only by an execute of a DeployContract of that name that submitted
\* its transaction, saw the receipt within the timeout and, with verify,
\* read the expected code; an execute that fails, or runs without timeout,
\* or is of another operation, adds none; collected keys stay.
C15_DeferredOnlyAfterConfirmedDeploy ==
    [][/\ deferred \subseteq deferred'
       /\ \A key \in deferred' \ deferred :
            /\ call' = call
            /\ op.kind \in DeployKinds
            /\ key = "contract/" \o op.contract_name
            /\ last'.returned /\ last'.error = NoError
            /\ last'.submitted # None /\ nsent' = nsent + 1
            /\ last'.hash = Some(nsent')
            /\ op.timeout # None
            /\ last'.delay # None /\ last'.delay[1] <= op.timeout[1]
            /\ op.verify
                 => /\ last'.code # None
                    /\ last'.code[1].chars =
                          (IF op.kind = "DeployRegistrar" THEN "0x6080" ELSE "0x6060")
       /\ (call' = call /\ call.error = NoError /\ call # NoCall)
            => /\ last'.error # NoError => deferred' = deferred
               /\ op.timeout = None => deferred' = deferred
               /\ op.kind \notin DeployKinds => deferred' = deferred
               /\ (last'.returned /\ op.kind \in DeployKinds /\ op.timeout # None)
                    => "contract/" \o op.contract_name \in deferred']_vars

C15_Witness ==
    /\ deferred = {"contract/Greeter", "contract/Registrar"}
    /\ op.kind = "DeployRegistrar"
    /\ last.returned
    /\ nsent = 2

====
